---- MODULE Spec2Model ----
(***************************************************************************)
(* Garage Senso (src/src/main.cpp): the state-inference and publication    *)
(* loop of the sketch.  setup() has run; loop() is executed forever, one   *)
(* call per tick, split at the points where the environment (broker,       *)
(* channel, ADC, DHT sensor) is consulted.                                 *)
(*                                                                         *)
(* Program state: oldstate, state, olddistance, newdistance,               *)
(* last_msg_sent, the loop locals now / sensor_read / newdistance, the two *)
(* LED outputs.  Environment: connected (client.connected()), clock        *)
(* (millis()).  History variables (rlog, log, drops, tickConnected,        *)
(* prevClass, curClass, prevNow, elapsed, fires, reads, mono, monoFire,    *)
(* trueElapsed, lastDist, lastDoor, firstDoor) record what a tick did;     *)
(* they never influence the program.                                       *)
(***************************************************************************)
EXTENDS Integers, Sequences, FiniteSets, TLC

\* ------------------------------------------------------------------------
\* Program constants (main.cpp, #define block and literals)
\* ------------------------------------------------------------------------
SLEEPMS == 900
BACKOFFMS == 5000
INTERVAL == 10000
THRESHOLD == 20
MQTT_TOPIC == "garagedoor"
MQTT_SENSORS == "pong"
MQTT_TEMP == "garage_temp"
MQTT_HUMI == "garage_humi"

\* ------------------------------------------------------------------------
\* Bounds of the exploration
\* ------------------------------------------------------------------------
\* millis() stops advancing after this many milliseconds of exploration
\* (the program keeps running)
MaxClock == 21000
\* the log of a reconnect() call records at most this many calls; a log
\* shorter than MaxLog is the complete history of the call
MaxLog == 9
\* the channel drops at most this many times within one tick
MaxDrops == 1

\* values of millis() at the first call of loop(): setup() waits 10 ms, then
\* polls WiFi.status() every 500 ms, and prints on a 9600 baud line
BootClocks == {100}
\* values of (long) millis() shortly before it passes LongMax (24.8 days
\* after boot) and shortly before the 32-bit counter restarts at 0 (49.7
\* days): 100 + 5000 * 429496 and 100 + 5000 * 858993 - 2^32
WrapClocks == {2147480100, -2196}
\* raw ADC samples fed to the loop
RawSamples == {0, 543, 544}
\* DHT22 readings in tenths; ok = FALSE is the driver's NaN (failed read)
DhtReadings == {[ok |-> FALSE, tenths |-> 0], [ok |-> TRUE, tenths |-> 215]}

\* ------------------------------------------------------------------------
\* DistanceModel: cm = 10650.08 * pow(sensor_read, -0.935) - 10, roundf(cm)
\* ------------------------------------------------------------------------
\* pow(0, -0.935) is +infinity; infinity - 10 and roundf(infinity) stay
\* infinity.  INF stands for that value: it compares above every finite
\* distance and equal to itself.
INF == 1000000

\* roundf((float)(10650.08 * pow(r, -0.935) - 10)) tabulated for r = 1..1023
DistanceTable ==
  <<
     10640, 5560, 3803, 2904, 2355, 1984, 1717, 1514, 1355, 1227, 1121, 1033, 958, 893, 837, 787,
     743, 704, 669, 637, 608, 582, 558, 536, 515, 496, 479, 462, 447, 433, 419, 407,
     395, 384, 373, 363, 354, 345, 337, 328, 321, 313, 306, 300, 293, 287, 281, 275,
     270, 265, 260, 255, 250, 246, 241, 237, 233, 229, 225, 222, 218, 215, 211, 208,
     205, 202, 199, 196, 193, 191, 188, 185, 183, 180, 178, 176, 173, 171, 169, 167,
     165, 163, 161, 159, 157, 155, 154, 152, 150, 149, 147, 145, 144, 142, 141, 139,
     138, 136, 135, 134, 132, 131, 130, 128, 127, 126, 125, 124, 123, 121, 120, 119,
     118, 117, 116, 115, 114, 113, 112, 111, 110, 109, 108, 107, 107, 106, 105, 104,
     103, 102, 102, 101, 100, 99, 99, 98, 97, 96, 96, 95, 94, 94, 93, 92,
     92, 91, 90, 90, 89, 88, 88, 87, 87, 86, 85, 85, 84, 84, 83, 83,
     82, 82, 81, 80, 80, 79, 79, 78, 78, 77, 77, 77, 76, 76, 75, 75,
     74, 74, 73, 73, 72, 72, 72, 71, 71, 70, 70, 70, 69, 69, 68, 68,
     68, 67, 67, 67, 66, 66, 65, 65, 65, 64, 64, 64, 63, 63, 63, 62,
     62, 62, 61, 61, 61, 61, 60, 60, 60, 59, 59, 59, 58, 58, 58, 58,
     57, 57, 57, 56, 56, 56, 56, 55, 55, 55, 55, 54, 54, 54, 54, 53,
     53, 53, 53, 52, 52, 52, 52, 51, 51, 51, 51, 51, 50, 50, 50, 50,
     49, 49, 49, 49, 49, 48, 48, 48, 48, 48, 47, 47, 47, 47, 47, 46,
     46, 46, 46, 46, 45, 45, 45, 45, 45, 44, 44, 44, 44, 44, 44, 43,
     43, 43, 43, 43, 43, 42, 42, 42, 42, 42, 42, 41, 41, 41, 41, 41,
     41, 40, 40, 40, 40, 40, 40, 40, 39, 39, 39, 39, 39, 39, 39, 38,
     38, 38, 38, 38, 38, 38, 37, 37, 37, 37, 37, 37, 37, 37, 36, 36,
     36, 36, 36, 36, 36, 36, 35, 35, 35, 35, 35, 35, 35, 35, 34, 34,
     34, 34, 34, 34, 34, 34, 33, 33, 33, 33, 33, 33, 33, 33, 33, 32,
     32, 32, 32, 32, 32, 32, 32, 32, 32, 31, 31, 31, 31, 31, 31, 31,
     31, 31, 31, 30, 30, 30, 30, 30, 30, 30, 30, 30, 30, 29, 29, 29,
     29, 29, 29, 29, 29, 29, 29, 29, 28, 28, 28, 28, 28, 28, 28, 28,
     28, 28, 28, 28, 27, 27, 27, 27, 27, 27, 27, 27, 27, 27, 27, 27,
     26, 26, 26, 26, 26, 26, 26, 26, 26, 26, 26, 26, 26, 25, 25, 25,
     25, 25, 25, 25, 25, 25, 25, 25, 25, 25, 25, 24, 24, 24, 24, 24,
     24, 24, 24, 24, 24, 24, 24, 24, 24, 24, 23, 23, 23, 23, 23, 23,
     23, 23, 23, 23, 23, 23, 23, 23, 23, 23, 22, 22, 22, 22, 22, 22,
     22, 22, 22, 22, 22, 22, 22, 22, 22, 22, 21, 21, 21, 21, 21, 21,
     21, 21, 21, 21, 21, 21, 21, 21, 21, 21, 21, 21, 20, 20, 20, 20,
     20, 20, 20, 20, 20, 20, 20, 20, 20, 20, 20, 20, 20, 20, 20, 19,
     19, 19, 19, 19, 19, 19, 19, 19, 19, 19, 19, 19, 19, 19, 19, 19,
     19, 19, 19, 19, 18, 18, 18, 18, 18, 18, 18, 18, 18, 18, 18, 18,
     18, 18, 18, 18, 18, 18, 18, 18, 18, 18, 17, 17, 17, 17, 17, 17,
     17, 17, 17, 17, 17, 17, 17, 17, 17, 17, 17, 17, 17, 17, 17, 17,
     17, 16, 16, 16, 16, 16, 16, 16, 16, 16, 16, 16, 16, 16, 16, 16,
     16, 16, 16, 16, 16, 16, 16, 16, 16, 16, 16, 15, 15, 15, 15, 15,
     15, 15, 15, 15, 15, 15, 15, 15, 15, 15, 15, 15, 15, 15, 15, 15,
     15, 15, 15, 15, 15, 15, 15, 14, 14, 14, 14, 14, 14, 14, 14, 14,
     14, 14, 14, 14, 14, 14, 14, 14, 14, 14, 14, 14, 14, 14, 14, 14,
     14, 14, 14, 14, 14, 13, 13, 13, 13, 13, 13, 13, 13, 13, 13, 13,
     13, 13, 13, 13, 13, 13, 13, 13, 13, 13, 13, 13, 13, 13, 13, 13,
     13, 13, 13, 13, 13, 13, 12, 12, 12, 12, 12, 12, 12, 12, 12, 12,
     12, 12, 12, 12, 12, 12, 12, 12, 12, 12, 12, 12, 12, 12, 12, 12,
     12, 12, 12, 12, 12, 12, 12, 12, 12, 12, 11, 11, 11, 11, 11, 11,
     11, 11, 11, 11, 11, 11, 11, 11, 11, 11, 11, 11, 11, 11, 11, 11,
     11, 11, 11, 11, 11, 11, 11, 11, 11, 11, 11, 11, 11, 11, 11, 11,
     11, 11, 10, 10, 10, 10, 10, 10, 10, 10, 10, 10, 10, 10, 10, 10,
     10, 10, 10, 10, 10, 10, 10, 10, 10, 10, 10, 10, 10, 10, 10, 10,
     10, 10, 10, 10, 10, 10, 10, 10, 10, 10, 10, 10, 10, 10, 9, 9,
     9, 9, 9, 9, 9, 9, 9, 9, 9, 9, 9, 9, 9, 9, 9, 9,
     9, 9, 9, 9, 9, 9, 9, 9, 9, 9, 9, 9, 9, 9, 9, 9,
     9, 9, 9, 9, 9, 9, 9, 9, 9, 9, 9, 9, 9, 9, 9, 8,
     8, 8, 8, 8, 8, 8, 8, 8, 8, 8, 8, 8, 8, 8, 8, 8,
     8, 8, 8, 8, 8, 8, 8, 8, 8, 8, 8, 8, 8, 8, 8, 8,
     8, 8, 8, 8, 8, 8, 8, 8, 8, 8, 8, 8, 8, 8, 8, 8,
     8, 8, 8, 8, 8, 8, 7, 7, 7, 7, 7, 7, 7, 7, 7, 7,
     7, 7, 7, 7, 7, 7, 7, 7, 7, 7, 7, 7, 7, 7, 7, 7,
     7, 7, 7, 7, 7, 7, 7, 7, 7, 7, 7, 7, 7, 7, 7, 7,
     7, 7, 7, 7, 7, 7, 7, 7, 7, 7, 7, 7, 7, 7, 7, 7,
     7, 7, 7, 7, 6, 6, 6, 6, 6, 6, 6, 6, 6, 6, 6
  >>

Distance(sensor_read) ==
  IF sensor_read = 0 THEN INF ELSE DistanceTable[sensor_read]

\* variant: exactly 20 cm is still CLOSED
ClassifyAbove(d) == d > THRESHOLD

\* if (newdistance >= 20) state = true; else state = false;
Classify(d) == d >= THRESHOLD

\* ------------------------------------------------------------------------
\* Fixed-width arithmetic of `long now = millis(); now - last_msg_sent`
\* ------------------------------------------------------------------------
\* range of a 32-bit long
LongMax == 2147483647
LongMin == (-LongMax) - 1

\* a + d for 0 <= d, wrapping modulo 2^32 into LongMin..LongMax: millis() is
\* an unsigned 32-bit counter read into `long now`
LongAdd(a, d) ==
  IF a > LongMax - d THEN LongMin + (d - (LongMax - a) - 1) ELSE a + d

\* a - b in 32-bit two's complement (the result the build produces)
LongSub(a, b) ==
  IF b < 0 /\ a > LongMax + b THEN LongMin + (a - (LongMax + b) - 1)
  ELSE IF b > 0 /\ a < LongMin + b THEN LongMax - ((LongMin + b) - a - 1)
  ELSE a - b

\* variant: the scheduler is due in every tick
SchedulerAlwaysDue(n, last) == LongSub(n, last) >= 0

\* variant: the scheduler is due as soon as one interval has elapsed
SchedulerDueAtInterval(n, last) == LongSub(n, last) >= INTERVAL

\* variant: the deadline last_msg_sent + 10000 is compared with now
SchedulerDueAbsolute(n, last) == n > LongAdd(last, INTERVAL)

\* if (now - last_msg_sent > 10000)
SchedulerDue(n, last) == LongSub(n, last) > INTERVAL

\* ------------------------------------------------------------------------
\* dtostrf(value, 5, 2, buf): at least 5 characters, 2 decimals; a NaN
\* reading is written as the text "nan" (no padding)
\* ------------------------------------------------------------------------
PadLeft(s, len, width) ==
  IF len >= width THEN s
  ELSE IF width - len = 1 THEN " " \o s
  ELSE IF width - len = 2 THEN "  " \o s
  ELSE "   " \o s

Digits(n) == IF n < 10 THEN 1 ELSE IF n < 100 THEN 2 ELSE 3

Dtostrf(r) ==
  IF ~r.ok THEN "nan"
  ELSE PadLeft(ToString(r.tenths \div 10) \o "." \o ToString(r.tenths % 10) \o "0",
               Digits(r.tenths \div 10) + 3, 5)

\* ------------------------------------------------------------------------
\* State
\* ------------------------------------------------------------------------
VARIABLES
  pc,             \* position of the single thread of control
  connected,      \* client.connected()
  clock,          \* (long) millis()
  oldstate,       \* boolean oldstate  (true = OPEN)
  state,          \* boolean state
  olddistance,    \* float olddistance
  newdistance,    \* float newdistance (file scope; shadowed in loop())
  last_msg_sent,  \* long last_msg_sent
  now,            \* loop(): long now
  sensor_read,    \* loop(): float sensor_read
  loop_newdistance, \* loop(): float newdistance (the local)
  led_green,      \* output level of LED_GREEN
  led_red,        \* output level of LED_RED
  rlog,           \* history: calls made by the reconnect() in progress
  log,            \* history: calls made by the current tick after line 152
  drops,          \* history: channel drops since the start of the tick
  tickConnected,  \* history: what the check of line 149 saw in this tick
  prevClass,      \* history: state classified in the tick before the last
  curClass,       \* history: state classified in the last completed tick
  prevNow,        \* history: value of now in the previous tick
  elapsed,        \* history: now - last_msg_sent as tested in this tick
  fires,          \* history: value of now at the last two scheduler fires
  reads,          \* history: the DHT readings <<humi, temp>> of this tick
  mono,           \* history: milliseconds counted without wrapping
  monoFire,       \* history: mono at the latest scheduler fire
  trueElapsed,    \* history: mono - monoFire at the test of this tick
  lastDist,       \* history: rounded distance of the last completed tick
  lastDoor,       \* history: the latest door-state payload published
  firstDoor,      \* history: the first door-state payload published
  outageMove      \* environment: raw reading the door was moved to while
                  \* reconnect() was blocking in this tick

vars == <<pc, connected, clock, oldstate, state, olddistance, newdistance,
          last_msg_sent, now, sensor_read, loop_newdistance, led_green,
          led_red, rlog, log, drops, tickConnected, prevClass, curClass, prevNow,
          elapsed, fires, reads, mono, monoFire, trueElapsed, lastDist,
          lastDoor, firstDoor, outageMove>>

progVars == <<oldstate, state, olddistance, newdistance, last_msg_sent, now,
              sensor_read, loop_newdistance, led_green, led_red>>

histVars == <<tickConnected, prevClass, curClass, prevNow, elapsed, fires,
              reads, monoFire, trueElapsed, lastDist, lastDoor, firstDoor,
              outageMove>>

\* optional values of the history variables
None == <<>>
Some(v) == <<v>>
Val(o) == o[1]

\* (long) millis() after d more milliseconds
AdvanceClock(c, d) ==
  IF mono + d > MaxClock THEN c ELSE LongAdd(c, d)

\* the same wait on the unwrapped count of milliseconds
AdvanceMono(d) == IF mono + d > MaxClock THEN mono ELSE mono + d

\* ------------------------------------------------------------------------
\* Log of the calls a tick makes
\* ------------------------------------------------------------------------
Event(k, t, p, o) == [kind |-> k, topic |-> t, payload |-> p, ok |-> o]

\* client.publish(topic, payload): the call is made whatever the channel
\* state; PubSubClient returns false (nothing is sent) when not connected
Publish(t, p) == Event("publish", t, p, connected)

Record(l, e) == IF Len(l) < MaxLog THEN Append(l, e) ELSE l

RECURSIVE RecordAll(_, _)
RecordAll(l, es) ==
  IF es = <<>> THEN l ELSE RecordAll(Record(l, Head(es)), Tail(es))

Complete(l) == Len(l) < MaxLog

\* ------------------------------------------------------------------------
\* setup(): lines 101-140.  Globals are zero-initialised, the outputs are
\* configured and never written, the client is configured but not connected.
\* ------------------------------------------------------------------------
\* variant: setup() starts from CLOSED
SetupStateClosed == FALSE

\* setup(), lines 138-139: oldstate = true; state = true;
SetupState == TRUE

Init ==
  /\ pc = "loop"
  /\ connected = FALSE
  /\ clock \in BootClocks
  /\ oldstate = SetupState
  /\ state = SetupState
  /\ olddistance = 0
  /\ newdistance = 0
  /\ last_msg_sent = 0
  /\ now = 0
  /\ sensor_read = 0
  /\ loop_newdistance = 0
  /\ led_green = "LOW"
  /\ led_red = "LOW"
  /\ rlog = <<>>
  /\ log = <<>>
  /\ drops = 0
  /\ tickConnected = FALSE
  /\ prevClass = None
  /\ curClass = None
  /\ prevNow = None
  /\ elapsed = None
  /\ fires = <<>>
  /\ reads = None
  /\ mono = clock
  /\ monoFire = None
  /\ trueElapsed = None
  /\ lastDist = 0
  /\ lastDoor = None
  /\ firstDoor = None
  /\ outageMove = None

\* ------------------------------------------------------------------------
\* loop(), lines 148-152: connection check
\* ------------------------------------------------------------------------
\* variant: reconnect() is entered in every tick
LoopAlwaysReconnects == TRUE

\* if (!client.connected())
LoopNeedsReconnect == ~connected

LoopCheck ==
  /\ pc = "loop"
  /\ pc' = IF LoopNeedsReconnect THEN "reconnect" ELSE "telemetry"
  /\ log' = <<>>
  /\ rlog' = <<>>
  /\ drops' = 0
  /\ tickConnected' = connected
  /\ elapsed' = None
  /\ prevNow' = None
  /\ reads' = None
  /\ trueElapsed' = None
  /\ outageMove' = None
  /\ UNCHANGED <<connected, clock, progVars, prevClass, curClass, fires, mono,
                 monoFire, lastDist, lastDoor, firstDoor>>

\* ------------------------------------------------------------------------
\* reconnect(), lines 70-93
\* ------------------------------------------------------------------------
\* variant: reconnect() gives up after three refused attempts
WhileGivesUp == ~connected /\ Len(rlog) < 6

\* while (!client.connected())
WhileNeedsReconnect == ~connected

ReconnectWhile ==
  /\ pc = "reconnect"
  /\ pc' = IF WhileNeedsReconnect THEN "connect" ELSE "telemetry"
  /\ rlog' = IF WhileNeedsReconnect THEN rlog ELSE <<>>
  /\ UNCHANGED <<connected, clock, progVars, log, drops, mono, histVars>>

\* client.connect(clientId) returns true: line 80
ConnectOk ==
  /\ pc = "connect"
  /\ connected' = TRUE
  /\ rlog' = Record(rlog, Event("connect", "", "", TRUE))
  /\ pc' = "announce"
  /\ UNCHANGED <<clock, progVars, log, drops, mono, histVars>>

\* client.publish(MQTT_TOPIC, "sensor_online"): line 84
Announce ==
  /\ pc = "announce"
  /\ rlog' = Record(rlog, Publish(MQTT_TOPIC, "sensor_online"))
  /\ pc' = "reconnect"
  /\ UNCHANGED <<connected, clock, progVars, log, drops, mono, histVars>>

\* variant: the announcement is published after a refused attempt as well
ConnectFailAnnounces ==
  /\ pc = "connect"
  /\ connected' = FALSE
  /\ rlog' = RecordAll(rlog, <<Event("connect", "", "", FALSE),
                               Publish(MQTT_TOPIC, "sensor_online"),
                               Event("delay", "", "5000", TRUE)>>)
  /\ clock' = AdvanceClock(clock, BACKOFFMS)
  /\ mono' = AdvanceMono(BACKOFFMS)
  /\ pc' = "reconnect"
  /\ UNCHANGED <<progVars, log, drops, histVars>>

\* client.connect(clientId) returns false, delay(5000): lines 85-91
ConnectFail ==
  /\ pc = "connect"
  /\ connected' = FALSE
  /\ rlog' = RecordAll(rlog, <<Event("connect", "", "", FALSE),
                               Event("delay", "", "5000", TRUE)>>)
  /\ clock' = AdvanceClock(clock, BACKOFFMS)
  /\ mono' = AdvanceMono(BACKOFFMS)
  /\ pc' = "reconnect"
  /\ UNCHANGED <<progVars, log, drops, histVars>>

\* ------------------------------------------------------------------------
\* loop(), lines 154-174: ping and DHT readings once every 10 seconds
\* ------------------------------------------------------------------------
\* variant: a failed reading is not published
TelemetryBatchSkipsFailed(humi, temp) ==
  <<Publish(MQTT_SENSORS, "ping")>> \o
  (IF temp.ok THEN <<Publish(MQTT_TEMP, Dtostrf(temp))>> ELSE <<>>) \o
  (IF humi.ok THEN <<Publish(MQTT_HUMI, Dtostrf(humi))>> ELSE <<>>)

\* variant: the ping is published after the readings
TelemetryBatchPingLast(humi, temp) ==
  <<Publish(MQTT_TEMP, Dtostrf(temp)),
    Publish(MQTT_HUMI, Dtostrf(humi)),
    Publish(MQTT_SENSORS, "ping")>>

TelemetryBatch(humi, temp) ==
  <<Publish(MQTT_SENSORS, "ping"),
    Publish(MQTT_TEMP, Dtostrf(temp)),
    Publish(MQTT_HUMI, Dtostrf(humi))>>

Telemetry ==
  /\ pc = "telemetry"
  /\ now' = clock
  /\ prevNow' = IF curClass = None THEN None ELSE Some(now)
  /\ elapsed' = Some(LongSub(now', last_msg_sent))
  /\ trueElapsed' = IF monoFire = None THEN None
                                       ELSE Some(mono - Val(monoFire))
  /\ IF SchedulerDue(now', last_msg_sent)
       THEN /\ last_msg_sent' = now'
            /\ monoFire' = Some(mono)
            /\ fires' = IF fires = <<>> THEN <<now'>>
                                        ELSE <<fires[Len(fires)], now'>>
            /\ \E humi \in DhtReadings, temp \in DhtReadings :
                 /\ reads' = Some(<<humi, temp>>)
                 /\ log' = log \o TelemetryBatch(humi, temp)
       ELSE UNCHANGED <<last_msg_sent, monoFire, fires, reads, log>>
  /\ pc' = "sample"
  /\ UNCHANGED <<connected, clock, oldstate, state, olddistance, newdistance,
                 sensor_read, loop_newdistance, led_green, led_red,
                 rlog, drops, tickConnected, prevClass, curClass, mono,
                 lastDist, lastDoor, firstDoor, outageMove>>

\* ------------------------------------------------------------------------
\* loop(), lines 176-190: read distance, classify
\* ------------------------------------------------------------------------
\* variant: the comparison reads the file-scope newdistance, which loop()
\* never writes, instead of the local that shadows it
DistanceChangedGlobal(d) == olddistance # newdistance

\* if (olddistance != newdistance), newdistance being the local of line 179
DistanceChanged(d) == olddistance # d

Sample ==
  /\ pc = "sample"
  /\ \E raw \in RawSamples :
       /\ outageMove # None => raw = Val(outageMove)
       /\ sensor_read' = raw
       /\ loop_newdistance' = Distance(raw)
       /\ log' = log \o
            <<Event("analogRead", "", ToString(raw), TRUE)>> \o
            (IF DistanceChanged(Distance(raw))
               THEN <<Event("serial", "", "New distance", TRUE)>>
               ELSE <<>>)
       /\ state' = Classify(Distance(raw))
  /\ pc' = "edge"
  /\ UNCHANGED <<connected, clock, oldstate, olddistance, newdistance,
                 last_msg_sent, now, led_green, led_red, rlog, drops, mono,
                 histVars>>

\* ------------------------------------------------------------------------
\* loop(), lines 192-205: only on a status change
\* ------------------------------------------------------------------------
\* variant: only the opening edge is detected
EdgeOnOpenOnly == state /\ ~oldstate

\* if (state != oldstate)
EdgeDetected == state # oldstate

\* variant: the two LED levels are exchanged
EdgeLedsInverted ==
  /\ pc = "edge"
  /\ IF EdgeDetected
       THEN IF state
         THEN /\ lastDoor' = Some("garage_opened")
              /\ firstDoor' = IF firstDoor = None THEN Some("garage_opened")
                                                  ELSE firstDoor
              /\ log' = log \o
                   <<Publish(MQTT_TOPIC, "garage_opened"),
                     Event("digitalWrite", "LED_GREEN", "LOW", TRUE),
                     Event("digitalWrite", "LED_RED", "HIGH", TRUE)>>
              /\ led_green' = "LOW"
              /\ led_red' = "HIGH"
         ELSE /\ lastDoor' = Some("garage_closed")
              /\ firstDoor' = IF firstDoor = None THEN Some("garage_closed")
                                                  ELSE firstDoor
              /\ log' = log \o
                   <<Publish(MQTT_TOPIC, "garage_closed"),
                     Event("digitalWrite", "LED_GREEN", "HIGH", TRUE),
                     Event("digitalWrite", "LED_RED", "LOW", TRUE)>>
              /\ led_green' = "HIGH"
              /\ led_red' = "LOW"
       ELSE UNCHANGED <<log, led_green, led_red, lastDoor, firstDoor>>
  /\ pc' = "keep"
  /\ UNCHANGED <<connected, clock, oldstate, state, olddistance, newdistance,
                 last_msg_sent, now, sensor_read, loop_newdistance, rlog,
                 drops, mono, tickConnected, prevClass, curClass, prevNow,
                 elapsed, fires, reads, monoFire, trueElapsed, lastDist,
                 outageMove>>

Edge ==
  /\ pc = "edge"
  /\ IF EdgeDetected
       THEN IF state
         THEN /\ lastDoor' = Some("garage_opened")
              /\ firstDoor' = IF firstDoor = None THEN Some("garage_opened")
                                                  ELSE firstDoor
              /\ log' = log \o
                   <<Publish(MQTT_TOPIC, "garage_opened"),
                     Event("digitalWrite", "LED_GREEN", "HIGH", TRUE),
                     Event("digitalWrite", "LED_RED", "LOW", TRUE)>>
              /\ led_green' = "HIGH"
              /\ led_red' = "LOW"
         ELSE /\ lastDoor' = Some("garage_closed")
              /\ firstDoor' = IF firstDoor = None THEN Some("garage_closed")
                                                  ELSE firstDoor
              /\ log' = log \o
                   <<Publish(MQTT_TOPIC, "garage_closed"),
                     Event("digitalWrite", "LED_GREEN", "LOW", TRUE),
                     Event("digitalWrite", "LED_RED", "HIGH", TRUE)>>
              /\ led_green' = "LOW"
              /\ led_red' = "HIGH"
       ELSE UNCHANGED <<log, led_green, led_red, lastDoor, firstDoor>>
  /\ pc' = "keep"
  /\ UNCHANGED <<connected, clock, oldstate, state, olddistance, newdistance,
                 last_msg_sent, now, sensor_read, loop_newdistance, rlog,
                 drops, mono, tickConnected, prevClass, curClass, prevNow,
                 elapsed, fires, reads, monoFire, trueElapsed, lastDist,
                 outageMove>>

\* variant: the file-scope newdistance, which loop() never writes, is kept
KeepUsesGlobalDistance ==
  /\ pc = "keep"
  /\ oldstate' = state
  /\ olddistance' = newdistance
  /\ log' = Append(log, Event("delay", "", "900", TRUE))
  /\ clock' = AdvanceClock(clock, SLEEPMS)
  /\ mono' = AdvanceMono(SLEEPMS)
  /\ lastDist' = Distance(sensor_read)
  /\ prevClass' = curClass
  /\ curClass' = Some(state)
  /\ pc' = "loop"
  /\ UNCHANGED <<connected, state, newdistance, last_msg_sent, now,
                 sensor_read, loop_newdistance, led_green, led_red, rlog,
                 drops, tickConnected, prevNow, elapsed, fires, reads,
                 monoFire, trueElapsed, lastDoor, firstDoor, outageMove>>

\* ------------------------------------------------------------------------
\* loop(), lines 207-212: keep states of previous run, delay(SLEEPMS)
\* ------------------------------------------------------------------------
KeepAndSleep ==
  /\ pc = "keep"
  /\ oldstate' = state
  /\ olddistance' = loop_newdistance
  /\ log' = Append(log, Event("delay", "", "900", TRUE))
  /\ clock' = AdvanceClock(clock, SLEEPMS)
  /\ mono' = AdvanceMono(SLEEPMS)
  /\ lastDist' = Distance(sensor_read)
  /\ prevClass' = curClass
  /\ curClass' = Some(state)
  /\ pc' = "loop"
  /\ UNCHANGED <<connected, state, newdistance, last_msg_sent, now,
                 sensor_read, loop_newdistance, led_green, led_red, rlog,
                 drops, tickConnected, prevNow, elapsed, fires, reads,
                 monoFire, trueElapsed, lastDoor, firstDoor, outageMove>>

\* ------------------------------------------------------------------------
\* Environment: the channel drops (broker or network failure) at any moment
\* ------------------------------------------------------------------------
Drop ==
  /\ connected
  /\ drops < MaxDrops
  /\ connected' = FALSE
  /\ drops' = drops + 1
  /\ UNCHANGED <<pc, clock, progVars, rlog, log, mono, histVars>>

\* Environment: the door is moved while reconnect() is blocking and is at
\* raw reading r when the connection is restored (r is the previous reading
\* when it was moved and moved back).  This only keeps track of a movement
\* that falls into an outage: the door moves freely between two samples in
\* every specification, since Sample draws any reading.
DoorMoves ==
  /\ pc \in {"reconnect", "connect"}
  /\ ~connected
  /\ curClass # None
  /\ outageMove = None
  /\ \E r \in RawSamples : outageMove' = Some(r)
  /\ UNCHANGED <<pc, connected, clock, progVars, rlog, log, drops, mono,
                 tickConnected, prevClass, curClass, prevNow, elapsed, fires,
                 reads, monoFire, trueElapsed, lastDist, lastDoor, firstDoor>>

Step ==
  \/ LoopCheck
  \/ ReconnectWhile
  \/ ConnectOk
  \/ Announce
  \/ ConnectFail
  \/ Telemetry
  \/ Sample
  \/ Edge
  \/ KeepAndSleep

Next == Step \/ Drop

Spec == Init /\ [][Next]_vars

\* Spec with the door movements during an outage tracked
NextOutage == Next \/ DoorMoves

OutageSpec == Init /\ [][NextOutage]_vars

\* A device whose broker has refused every connection since boot: the first
\* tick is still inside reconnect(), after 429496 or 858993 backoff waits.
\* mono counts on from the boot value of this exploration.
WrapInit ==
  /\ pc = "reconnect"
  /\ connected = FALSE
  /\ clock \in WrapClocks
  /\ oldstate = SetupState
  /\ state = SetupState
  /\ olddistance = 0
  /\ newdistance = 0
  /\ last_msg_sent = 0
  /\ now = 0
  /\ sensor_read = 0
  /\ loop_newdistance = 0
  /\ led_green = "LOW"
  /\ led_red = "LOW"
  /\ rlog = RecordAll(<<>>, <<Event("connect", "", "", FALSE),
                              Event("delay", "", "5000", TRUE),
                              Event("connect", "", "", FALSE),
                              Event("delay", "", "5000", TRUE),
                              Event("connect", "", "", FALSE),
                              Event("delay", "", "5000", TRUE),
                              Event("connect", "", "", FALSE),
                              Event("delay", "", "5000", TRUE),
                              Event("connect", "", "", FALSE),
                              Event("delay", "", "5000", TRUE),
                              Event("connect", "", "", FALSE),
                              Event("delay", "", "5000", TRUE)>>)
  /\ log = <<>>
  /\ drops = 0
  /\ tickConnected = FALSE
  /\ prevClass = None
  /\ curClass = None
  /\ prevNow = None
  /\ elapsed = None
  /\ fires = <<>>
  /\ reads = None
  /\ mono \in BootClocks
  /\ monoFire = None
  /\ trueElapsed = None
  /\ lastDist = 0
  /\ lastDoor = None
  /\ firstDoor = None
  /\ outageMove = None

WrapSpec == WrapInit /\ [][Next]_vars

\* The single thread of control always takes its next step; a broker that
\* is asked again and again eventually accepts a connection.
Fairness == WF_vars(Step) /\ SF_vars(ConnectOk)

LiveSpec == Init /\ [][Next]_vars /\ Fairness

TypeOK ==
  /\ pc \in {"loop", "reconnect", "connect", "announce", "telemetry",
             "sample", "edge", "keep"}
  /\ connected \in BOOLEAN
  /\ clock \in 0..MaxClock
  /\ oldstate \in BOOLEAN /\ state \in BOOLEAN
  /\ led_green \in {"LOW", "HIGH"} /\ led_red \in {"LOW", "HIGH"}
  /\ Len(rlog) <= MaxLog
  /\ drops \in 0..MaxDrops

\* ------------------------------------------------------------------------
\* Reading the logs
\* ------------------------------------------------------------------------
IsDoorMsg(e) ==
  /\ e.kind = "publish"
  /\ e.topic = MQTT_TOPIC
  /\ e.payload \in {"garage_opened", "garage_closed"}

DoorMsgs(l) == SelectSeq(l, IsDoorMsg)

IsLedWrite(e) == e.kind = "digitalWrite"

LedWrites(l) == SelectSeq(l, IsLedWrite)

DoorPayload(open) == IF open THEN "garage_opened" ELSE "garage_closed"

\* ------------------------------------------------------------------------
\* C1: after two consecutive ticks, the second tick has published one
\* door-state message iff its classified state differs from the state
\* classified in the first: "garage_opened" for (CLOSED, OPEN),
\* "garage_closed" for (OPEN, CLOSED), none when both are equal.
\* ------------------------------------------------------------------------
C1_EdgeIffStateDiffers ==
  (pc = "loop" /\ prevClass # None /\ curClass # None) =>
    IF Val(prevClass) = Val(curClass)
      THEN DoorMsgs(log) = <<>>
      ELSE /\ Len(DoorMsgs(log)) = 1
           /\ DoorMsgs(log)[1].payload = DoorPayload(Val(curClass))

C1_Witness ==
  /\ pc = "loop"
  /\ prevClass = Some(FALSE)
  /\ curClass = Some(TRUE)
  /\ Len(DoorMsgs(log)) = 1
  /\ DoorMsgs(log)[1].payload = "garage_opened"

\* ------------------------------------------------------------------------
\* C2: during the first tick after setup no door-state message is published
\* and no indicator is written, whatever the raw sample.
\* ------------------------------------------------------------------------
C2_FirstTickSilent ==
  curClass = None => (DoorMsgs(log) = <<>> /\ LedWrites(log) = <<>>)

\* ------------------------------------------------------------------------
\* C3: a reconnect() whose broker refuses N attempts and then accepts one
\* has made exactly the calls (connect refused, delay 5000) N times, then
\* connect accepted, then publish "sensor_online"; in any reconnect() a
\* refused attempt is followed by the 5000 ms wait and never by a publish,
\* and "sensor_online" is published only right after an accepted attempt.
\* ------------------------------------------------------------------------
ConnectRefused == Event("connect", "", "", FALSE)
ConnectAccepted == Event("connect", "", "", TRUE)
Backoff == Event("delay", "", "5000", TRUE)
Online == Event("publish", MQTT_TOPIC, "sensor_online", TRUE)

RECURSIVE RefusedRounds(_)
RefusedRounds(n) ==
  IF n = 0 THEN <<>> ELSE <<ConnectRefused, Backoff>> \o RefusedRounds(n - 1)

Count(l, e) == Cardinality({i \in DOMAIN l : l[i] = e})

IsOnline(e) ==
  e.kind = "publish" /\ e.topic = MQTT_TOPIC /\ e.payload = "sensor_online"

C3_AnnounceOnceAfterSuccess ==
  Complete(rlog) =>
    /\ \A i \in DOMAIN rlog :
         /\ rlog[i] = ConnectRefused =>
              (i < Len(rlog) /\ rlog[i + 1] = Backoff)
         /\ rlog[i] = Backoff => (i > 1 /\ rlog[i - 1] = ConnectRefused)
         /\ IsOnline(rlog[i]) => (i > 1 /\ rlog[i - 1] = ConnectAccepted)
         /\ rlog[i].kind = "publish" => IsOnline(rlog[i])
         /\ (rlog[i] = ConnectAccepted /\ (i < Len(rlog) \/ pc # "announce")) =>
              (i < Len(rlog) /\ IsOnline(rlog[i + 1]))
    /\ (pc = "reconnect" /\ connected /\ Count(rlog, ConnectAccepted) = 1) =>
         \E n \in 0..MaxLog :
           rlog = RefusedRounds(n) \o <<ConnectAccepted, Online>>

C3_Witness ==
  /\ pc = "reconnect"
  /\ connected
  /\ rlog = RefusedRounds(3) \o <<ConnectAccepted, Online>>
  /\ clock = 100 + 3 * BACKOFFMS

\* ------------------------------------------------------------------------
\* Scheduler fires as seen in the logs
\* ------------------------------------------------------------------------
IsPing(e) ==
  e.kind = "publish" /\ e.topic = MQTT_SENSORS /\ e.payload = "ping"

Pings(l) == SelectSeq(l, IsPing)

IsTemp(e) == e.kind = "publish" /\ e.topic = MQTT_TEMP

IsHumi(e) == e.kind = "publish" /\ e.topic = MQTT_HUMI

\* the scheduler fired in the current tick: the DHT sensor was read
Fired == reads # None

\* ------------------------------------------------------------------------
\* C4: a tick fires the scheduler at most once; two consecutive fires are
\* at least INTERVAL apart; a tick whose now is more than INTERVAL (even
\* several times INTERVAL) after the now of the previous tick fires exactly
\* once and leaves last_msg_sent = now, the time of the latest fire.
\* ------------------------------------------------------------------------
C4_OncePerWindowNoBacklog ==
  /\ Len(Pings(log)) <= 1
  /\ Len(fires) = 2 => LongSub(fires[2], fires[1]) >= INTERVAL
  /\ fires # <<>> => last_msg_sent = fires[Len(fires)]
  /\ (prevNow # None /\ LongSub(now, Val(prevNow)) > INTERVAL) =>
       /\ Len(Pings(log)) = 1
       /\ Fired
       /\ last_msg_sent = now

C4_Witness ==
  /\ prevNow # None
  /\ LongSub(now, Val(prevNow)) > INTERVAL
  /\ Len(fires) = 2
  /\ fires[2] = now
  /\ Len(Pings(log)) = 1
  /\ pc = "loop"

\* ------------------------------------------------------------------------
\* C5: a tick in which the scheduler fires publishes exactly one "ping" on
\* the liveness topic, one message on the temperature topic and one on the
\* humidity topic, whatever the two reads return; the message of a failed
\* read carries the marker "nan" and the message of a successful read does
\* not.
\* ------------------------------------------------------------------------
C5_FireAlwaysPublishesThree ==
  Fired =>
    /\ Len(Pings(log)) = 1
    /\ Len(SelectSeq(log, IsTemp)) = 1
    /\ Len(SelectSeq(log, IsHumi)) = 1
    /\ (SelectSeq(log, IsHumi)[1].payload = "nan") <=> ~Val(reads)[1].ok
    /\ (SelectSeq(log, IsTemp)[1].payload = "nan") <=> ~Val(reads)[2].ok

C5_Witness ==
  /\ Fired
  /\ ~Val(reads)[1].ok
  /\ Val(reads)[2].ok
  /\ SelectSeq(log, IsHumi) = <<Event("publish", MQTT_HUMI, "nan", TRUE)>>
  /\ SelectSeq(log, IsTemp) = <<Event("publish", MQTT_TEMP, "21.50", TRUE)>>
  /\ Len(Pings(log)) = 1

\* ------------------------------------------------------------------------
\* C8 (as claimed): in every tick the scheduler fires iff
\* now - last_msg_sent >= 10000.
\* ------------------------------------------------------------------------
C8_FiresAtInterval ==
  elapsed # None => (Fired <=> Val(elapsed) >= INTERVAL)

\* ------------------------------------------------------------------------
\* C8 (amended): in every tick the scheduler fires iff
\* now - last_msg_sent > 10000; a tick in which exactly 10000 ms have
\* elapsed does not fire.
\* ------------------------------------------------------------------------
C8_FiresAfterInterval ==
  elapsed # None => (Fired <=> Val(elapsed) > INTERVAL)

C8_Witness ==
  /\ elapsed = Some(INTERVAL)
  /\ now = INTERVAL
  /\ last_msg_sent = 0
  /\ ~Fired
  /\ pc = "sample"

\* ------------------------------------------------------------------------
\* C6: a tick whose connection check finds the channel connected makes no
\* connect attempt, no publish and no backoff wait in that check, and the
\* check leaves oldstate, olddistance, last_msg_sent and the clock as they
\* were.
\* ------------------------------------------------------------------------
C6_ConnectedCheckIsNoOp ==
  /\ [](tickConnected => (rlog = <<>> /\ pc \notin {"connect", "announce"}))
  /\ [][(pc = "loop" /\ connected) =>
          /\ rlog' = <<>>
          /\ pc' # pc => log' = <<>>
          /\ UNCHANGED <<oldstate, olddistance, last_msg_sent, clock>>]_vars

C6_Witness ==
  /\ tickConnected
  /\ connected
  /\ pc = "telemetry"
  /\ rlog = <<>>
  /\ log = <<>>
  /\ curClass # None

\* ------------------------------------------------------------------------
\* C7: a tick whose raw sample is 0 classifies the door as CLOSED and
\* publishes no "garage_opened".
\* ------------------------------------------------------------------------
C7_ZeroSampleIsClosed ==
  (pc \in {"edge", "keep"} /\ sensor_read = 0) =>
    /\ ~state
    /\ \A i \in DOMAIN log :
         ~(log[i].kind = "publish" /\ log[i].payload = "garage_opened")

\* ------------------------------------------------------------------------
\* C9: a door edge whose publish was attempted while the channel was
\* disconnected is not recorded as emitted: at the end of such a tick
\* oldstate has not been advanced to the new state.
\* ------------------------------------------------------------------------
C9_FailedEdgeNotRecorded ==
  (pc = "loop" /\ \E i \in DOMAIN log : IsDoorMsg(log[i]) /\ ~log[i].ok) =>
    oldstate # state

\* ------------------------------------------------------------------------
\* C10: reconnect() has no retry limit: while the channel is disconnected
\* the while test always leads to another attempt, reconnect() is left only
\* with the channel connected, the loop always has a next step, and under
\* Fairness every reconnect() returns and the tick goes on to sample.
\* ------------------------------------------------------------------------
InReconnect == pc \in {"reconnect", "connect", "announce"}

C10_RetriesUntilConnected ==
  /\ [][(pc = "reconnect" /\ ~connected) => pc' = "connect"]_vars
  /\ [][(pc = "connect" /\ pc' # pc) => pc' \in {"reconnect", "announce"}]_vars
  /\ [][(InReconnect /\ ~InReconnect') => (connected /\ pc' = "telemetry")]_vars
  /\ [](ENABLED Step)
  /\ InReconnect ~> (pc = "sample")

C10_Witness ==
  /\ pc = "reconnect"
  /\ connected
  /\ Len(rlog) = MaxLog
  /\ Count(rlog, ConnectRefused) >= 4
  /\ Count(rlog, ConnectAccepted) = 1

\* ------------------------------------------------------------------------
\* C11: in every state the loop reaches after setup exactly one of the two
\* indicators is active.
\* ------------------------------------------------------------------------
C11_ExactlyOneIndicator == (led_green = "HIGH") # (led_red = "HIGH")

\* ------------------------------------------------------------------------
\* C12: once a tick has completed, oldstate is the state classified in the
\* last completed tick and olddistance its rounded distance, edge or no
\* edge; at the end of a tick they are the values computed in that tick.
\* ------------------------------------------------------------------------
C12_PreviousValuesAreLastTick ==
  /\ olddistance = lastDist
  /\ curClass # None => oldstate = Val(curClass)
  /\ (pc = "loop" /\ curClass # None) =>
       /\ oldstate = state
       /\ oldstate = Classify(Distance(sensor_read))
       /\ olddistance = Distance(sensor_read)
       /\ olddistance = loop_newdistance

C12_Witness ==
  /\ pc = "loop"
  /\ prevClass = Some(FALSE)
  /\ curClass = Some(FALSE)
  /\ DoorMsgs(log) = <<>>
  /\ sensor_read = 544
  /\ olddistance = 19
  /\ ~oldstate

C14_OutageMovementLost == outageMove # None => DoorMsgs(log) = <<>>

BlockedInReconnect ==
  InReconnect =>
    UNCHANGED <<log, sensor_read, loop_newdistance, state, oldstate,
                olddistance, last_msg_sent, now, led_green, led_red>>

\* ------------------------------------------------------------------------
\* C14 (amended): while reconnect() is blocking nothing is sampled,
\* published as telemetry or detected as an edge; a door movement during
\* the outage is not queued: the tick samples once after the connection is
\* restored and publishes one door-state message if that sample classifies
\* differently from the last tick before the outage, and none if the door
\* is back in (or stayed within) its previous state.
\* ------------------------------------------------------------------------
C14_OutageMovementSeenOnceOrLost ==
  /\ [][BlockedInReconnect]_vars
  /\ []((outageMove # None /\ pc = "keep") =>
          /\ sensor_read = Val(outageMove)
          /\ Len(DoorMsgs(log)) <= 1
          /\ DoorMsgs(log) # <<>> <=>
               Classify(Distance(Val(outageMove))) # Val(curClass))

C14_Witness ==
  /\ pc = "keep"
  /\ outageMove = Some(544)
  /\ curClass = Some(TRUE)
  /\ ~tickConnected
  /\ Len(DoorMsgs(log)) = 1
  /\ DoorMsgs(log)[1].payload = "garage_closed"

\* ------------------------------------------------------------------------
\* C15: a tick makes its calls once and in a fixed order: the calls of
\* reconnect() (with every "sensor_online") before anything else, then the
\* telemetry batch ping, temperature, humidity if the scheduler fires, then
\* one analogRead (and the distance message), then at most one door-state
\* publish with its two LED writes, then the 900 ms wait.
\* ------------------------------------------------------------------------
Sig(e) == IF e.kind = "publish" THEN e.topic ELSE e.kind

Sigs(l) == [i \in DOMAIN l |-> Sig(l[i])]

TelemetrySigs == {<<>>, <<MQTT_SENSORS, MQTT_TEMP, MQTT_HUMI>>}

SampleSigs == {<<"analogRead">>, <<"analogRead", "serial">>}

EdgeSigs == {<<>>, <<MQTT_TOPIC, "digitalWrite", "digitalWrite">>}

SleepSigs == {<<"delay">>}

Concat(A, B) == {a \o b : a \in A, b \in B}

AfterTelemetry == TelemetrySigs
AfterSample == Concat(AfterTelemetry, SampleSigs)
AfterEdge == Concat(AfterSample, EdgeSigs)
AfterSleep == Concat(AfterEdge, SleepSigs)

C15_TickOrder ==
  /\ InReconnect => log = <<>>
  /\ \A i \in DOMAIN log : ~IsOnline(log[i])
  /\ \A i \in DOMAIN rlog : rlog[i].kind \in {"connect", "delay", "publish"}
  /\ pc = "telemetry" => log = <<>>
  /\ pc = "sample" => Sigs(log) \in AfterTelemetry
  /\ pc = "edge" => Sigs(log) \in AfterSample
  /\ pc = "keep" => Sigs(log) \in AfterEdge
  /\ (pc = "loop" /\ curClass # None) =>
       /\ Sigs(log) \in AfterSleep
       /\ log[Len(log)].payload = "900"
  /\ (Fired /\ pc # "telemetry") =>
       SubSeq(Sigs(log), 1, 3) = <<MQTT_SENSORS, MQTT_TEMP, MQTT_HUMI>>

C15_Witness ==
  /\ pc = "loop"
  /\ ~tickConnected
  /\ Sigs(log) = <<MQTT_SENSORS, MQTT_TEMP, MQTT_HUMI, "analogRead", "serial",
                   MQTT_TOPIC, "digitalWrite", "digitalWrite", "delay">>

\* ------------------------------------------------------------------------
\* C16: a tick logs "New distance" iff its rounded distance differs from
\* the rounded distance of the previous tick (0 before the first tick),
\* whether or not a door-state edge fires in that tick.
\* ------------------------------------------------------------------------
NewDistance == Event("serial", "", "New distance", TRUE)

C16_NewDistanceIffChanged ==
  pc \in {"edge", "keep"} =>
    /\ olddistance = lastDist
    /\ Count(log, NewDistance) <= 1
    /\ Count(log, NewDistance) = 1 <=> Distance(sensor_read) # lastDist

C16_Witness ==
  /\ pc = "keep"
  /\ curClass = Some(TRUE)
  /\ lastDist = INF
  /\ sensor_read = 543
  /\ Count(log, NewDistance) = 1
  /\ DoorMsgs(log) = <<>>

\* ------------------------------------------------------------------------
\* C17: the state classified in a tick depends on the raw sample of that
\* tick only: OPEN iff the rounded distance is at least 20, whatever
\* oldstate, olddistance, the clock and the earlier ticks are.
\* ------------------------------------------------------------------------
C17_ClassifyIsFunctionOfSample ==
  (pc \in {"edge", "keep"} \/ (pc = "loop" /\ curClass # None)) =>
    /\ state <=> Distance(sensor_read) >= THRESHOLD
    /\ sensor_read = 0 => state
    /\ sensor_read = 543 => state
    /\ sensor_read = 544 => ~state

C17_Witness ==
  /\ pc = "edge"
  /\ ~oldstate
  /\ olddistance = 19
  /\ prevClass = Some(FALSE)
  /\ sensor_read = 543
  /\ Distance(sensor_read) = THRESHOLD
  /\ state

\* ------------------------------------------------------------------------
\* C18: the door-state messages alternate between "garage_closed" and
\* "garage_opened", a tick publishes at most one of them, and the first one
\* after boot is "garage_closed".
\* ------------------------------------------------------------------------
DoorPublished == Len(DoorMsgs(log')) > Len(DoorMsgs(log))

Alternates ==
  /\ lastDoor' # lastDoor => DoorPublished
  /\ DoorPublished =>
       /\ Len(DoorMsgs(log')) = 1
       /\ lastDoor' = Some(DoorMsgs(log')[1].payload)
       /\ lastDoor = None => lastDoor' = Some("garage_closed")
       /\ lastDoor # None => lastDoor' # lastDoor

C18_DoorMessagesAlternate ==
  /\ [](Len(DoorMsgs(log)) <= 1)
  /\ [](firstDoor \in {None, Some("garage_closed")})
  /\ [](\A i \in DOMAIN rlog : ~IsDoorMsg(rlog[i]))
  /\ [][Alternates]_vars

C18_Witness ==
  /\ pc = "keep"
  /\ firstDoor = Some("garage_closed")
  /\ lastDoor = Some("garage_closed")
  /\ prevClass = Some(FALSE)
  /\ curClass = Some(TRUE)
  /\ Len(DoorMsgs(log)) = 1
  /\ DoorMsgs(log)[1].payload = "garage_closed"

\* ------------------------------------------------------------------------
\* C19: once a door-state message has been published, at the end of every
\* tick green is HIGH and red is LOW iff oldstate is OPEN, green is LOW and
\* red is HIGH iff oldstate is CLOSED; a tick without an edge leaves both
\* outputs unchanged.
\* ------------------------------------------------------------------------
LedsShowOpen == led_green = "HIGH" /\ led_red = "LOW"

LedsShowClosed == led_green = "LOW" /\ led_red = "HIGH"

LedsOnlyOnEdge ==
  <<led_green, led_red>>' # <<led_green, led_red>> =>
    pc = "edge" /\ EdgeDetected

C19_IndicatorsFollowState ==
  /\ []((pc = "loop" /\ firstDoor # None) =>
          /\ LedsShowOpen <=> oldstate
          /\ LedsShowClosed <=> ~oldstate)
  /\ [][LedsOnlyOnEdge]_vars

C19_Witness ==
  /\ pc = "loop"
  /\ firstDoor # None
  /\ prevClass = Some(TRUE)
  /\ curClass = Some(TRUE)
  /\ oldstate
  /\ LedsShowOpen
  /\ DoorMsgs(log) = <<>>
====
